---- MODULE Spec2Model ----
(***************************************************************************)
(* Model of the flight-search scripts src/app.py and                       *)
(* src/flight_search_agent.py: the date normaliser convert_to_iso_date,    *)
(* the airport-code cache get_iata_code and the request handling of both   *)
(* scripts.  Text is a sequence of one-character strings, so that          *)
(* lower(), strip(), "in", split(), int(), strptime() and strftime() are   *)
(* computed character by character as Python computes them.               *)
(***************************************************************************)
EXTENDS Integers, Sequences, FiniteSets, TLC

VARIABLES prog, today, ticks, iata_cache, log

vars == <<prog, today, ticks, iata_cache, log>>

(***************************************************************************)
(* Bounds of the model.                                                    *)
(***************************************************************************)
\* how many times the system date advances by one day in a behaviour
MaxTicks == 2

(***************************************************************************)
(* Python values and call outcomes.                                        *)
(***************************************************************************)
None == [t |-> "None", v |-> <<>>]

Str(s) == [t |-> "str", v |-> s]

\* an int, kept as its decimal digits
IntVal(s) == [t |-> "int", v |-> s]

IsStr(x) == x.t = "str"

\* Python truthiness of None, a str and an int
Truthy(x) ==
    CASE x.t = "None" -> FALSE
      [] x.t = "str" -> x.v # <<>>
      [] x.t = "int" -> \E i \in 1..Len(x.v) : x.v[i] # "0"
      [] OTHER -> TRUE

Return(x) == [raised |-> "", val |-> x]

Raise(e) == [raised |-> e, val |-> None]

(***************************************************************************)
(* Text.                                                                   *)
(***************************************************************************)
UpperLetters ==
    <<"A", "B", "C", "D", "E", "F", "G", "H", "I", "J", "K", "L", "M",
      "N", "O", "P", "Q", "R", "S", "T", "U", "V", "W", "X", "Y", "Z">>

LowerLetters ==
    <<"a", "b", "c", "d", "e", "f", "g", "h", "i", "j", "k", "l", "m",
      "n", "o", "p", "q", "r", "s", "t", "u", "v", "w", "x", "y", "z">>

Digits == <<"0", "1", "2", "3", "4", "5", "6", "7", "8", "9">>

IsDigit(c) == \E i \in 1..Len(Digits) : Digits[i] = c

DigitValue(c) == (CHOOSE i \in 1..Len(Digits) : Digits[i] = c) - 1

IsSpace(c) == c \in {" ", "\t", "\n"}

LowerChar(c) ==
    IF \E i \in 1..Len(UpperLetters) : UpperLetters[i] = c
    THEN LowerLetters[CHOOSE i \in 1..Len(UpperLetters) : UpperLetters[i] = c]
    ELSE c

\* str.lower()
Lower(s) == [i \in 1..Len(s) |-> LowerChar(s[i])]

\* str.strip()
Strip(s) ==
    IF \A i \in 1..Len(s) : IsSpace(s[i]) THEN <<>>
    ELSE LET lo == CHOOSE i \in 1..Len(s) :
                       ~IsSpace(s[i]) /\ \A j \in 1..(i - 1) : IsSpace(s[j])
             hi == CHOOSE i \in 1..Len(s) :
                       ~IsSpace(s[i]) /\ \A j \in (i + 1)..Len(s) : IsSpace(s[j])
         IN SubSeq(s, lo, hi)

\* index of the first occurrence of sub in s, 0 when there is none (str.find + 1)
Find(s, sub) ==
    LET hits == {i \in 1..(Len(s) - Len(sub) + 1) : SubSeq(s, i, i + Len(sub) - 1) = sub}
    IN IF hits = {} THEN 0 ELSE CHOOSE i \in hits : \A j \in hits : i <= j

\* sub in s
Contains(s, sub) == Find(s, sub) # 0

\* s.split(sep)[0]
SplitItem0(s, sep) ==
    IF Find(s, sep) = 0 THEN s ELSE SubSeq(s, 1, Find(s, sep) - 1)

\* s.split(sep)[1], for s that contains sep
SplitItem1(s, sep) ==
    SplitItem0(SubSeq(s, Find(s, sep) + Len(sep), Len(s)), sep)

RECURSIVE DigitsValue(_)
DigitsValue(ds) ==
    IF ds = <<>> THEN 0
    ELSE 10 * DigitsValue(SubSeq(ds, 1, Len(ds) - 1)) + DigitValue(ds[Len(ds)])

\* the decimal text of n >= 0, at least w characters wide, zero padded
RECURSIVE Decimal(_, _)
Decimal(n, w) ==
    IF n < 10 /\ w <= 1 THEN <<Digits[n + 1]>>
    ELSE Append(Decimal(n \div 10, w - 1), Digits[(n % 10) + 1])

\* int(text): surrounding whitespace, one optional sign, digits with single
\* underscores between them; anything else is a ValueError
IntBody(s) ==
    LET t == Strip(s)
    IN IF t # <<>> /\ t[1] \in {"+", "-"} THEN Tail(t) ELSE t

IntParses(s) ==
    LET b == IntBody(s)
    IN /\ b # <<>>
       /\ \A i \in 1..Len(b) : IsDigit(b[i]) \/ b[i] = "_"
       /\ IsDigit(b[1]) /\ IsDigit(b[Len(b)])
       /\ \A i \in 1..(Len(b) - 1) : ~(b[i] = "_" /\ b[i + 1] = "_")

IntValue(s) ==
    LET t == Strip(s)
        b == SelectSeq(IntBody(s), IsDigit)
    IN IF t[1] = "-" THEN 0 - DigitsValue(b) ELSE DigitsValue(b)

(***************************************************************************)
(* Calendar dates: datetime.date, timedelta addition, weekday().           *)
(***************************************************************************)
Date(y, m, d) == [year |-> y, month |-> m, day |-> d]

IsLeap(y) == (y % 4 = 0) /\ ((y % 100 # 0) \/ (y % 400 = 0))

DaysInMonth(y, m) ==
    IF m = 2 THEN (IF IsLeap(y) THEN 29 ELSE 28)
    ELSE IF m \in {4, 6, 9, 11} THEN 30 ELSE 31

RECURSIVE DaysBeforeMonth(_, _)
DaysBeforeMonth(y, m) ==
    IF m = 1 THEN 0 ELSE DaysBeforeMonth(y, m - 1) + DaysInMonth(y, m - 1)

DaysBeforeYear(y) ==
    365 * (y - 1) + ((y - 1) \div 4) - ((y - 1) \div 100) + ((y - 1) \div 400)

\* date.toordinal(): 0001-01-01 is day 1
ToOrdinal(dt) == DaysBeforeYear(dt.year) + DaysBeforeMonth(dt.year, dt.month) + dt.day

\* date.fromordinal()
FromOrdinal(n) ==
    LET y == CHOOSE yy \in (((n - 1) \div 366) + 1)..(((n - 1) \div 365) + 1) :
                 DaysBeforeYear(yy) < n /\ n <= DaysBeforeYear(yy + 1)
        r == n - DaysBeforeYear(y)
        m == CHOOSE mm \in 1..12 :
                 DaysBeforeMonth(y, mm) < r /\ r <= DaysBeforeMonth(y, mm) + DaysInMonth(y, mm)
    IN Date(y, m, r - DaysBeforeMonth(y, m))

\* date.max is 9999-12-31
MaxOrdinal == ToOrdinal(Date(9999, 12, 31))

\* today + timedelta(days=n) is an OverflowError outside date.min..date.max
AddDaysOverflows(dt, n) == ToOrdinal(dt) + n < 1 \/ ToOrdinal(dt) + n > MaxOrdinal

AddDays(dt, n) == FromOrdinal(ToOrdinal(dt) + n)

\* date.weekday(): Monday is 0
Weekday(dt) == (ToOrdinal(dt) + 6) % 7

\* date.strftime("%Y-%m-%d"); the C library's %Y does not pad a year below 1000
Strftime(dt) ==
    Decimal(dt.year, 1) \o <<"-">> \o Decimal(dt.month, 2) \o <<"-">> \o Decimal(dt.day, 2)

(***************************************************************************)
(* datetime.strptime(text, "%B %d %Y").                                    *)
(***************************************************************************)
\* %B: the full month names, matched ignoring case
MonthNames ==
    << <<"j", "a", "n", "u", "a", "r", "y">>,
       <<"f", "e", "b", "r", "u", "a", "r", "y">>,
       <<"m", "a", "r", "c", "h">>,
       <<"a", "p", "r", "i", "l">>,
       <<"m", "a", "y">>,
       <<"j", "u", "n", "e">>,
       <<"j", "u", "l", "y">>,
       <<"a", "u", "g", "u", "s", "t">>,
       <<"s", "e", "p", "t", "e", "m", "b", "e", "r">>,
       <<"o", "c", "t", "o", "b", "e", "r">>,
       <<"n", "o", "v", "e", "m", "b", "e", "r">>,
       <<"d", "e", "c", "e", "m", "b", "e", "r">> >>

\* how many characters of s, from position i on, are whitespace (digits)
SpaceRun(s, i) ==
    CHOOSE k \in 0..(Len(s) - i + 1) :
        /\ \A j \in i..(i + k - 1) : IsSpace(s[j])
        /\ (i + k > Len(s) \/ ~IsSpace(s[i + k]))

DigitRun(s, i) ==
    CHOOSE k \in 0..(Len(s) - i + 1) :
        /\ \A j \in i..(i + k - 1) : IsDigit(s[j])
        /\ (i + k > Len(s) \/ ~IsDigit(s[i + k]))

\* %d: 3[0-1] | [1-2]\d | 0[1-9] | [1-9]
IsDayText(ds) ==
    \/ Len(ds) = 1 /\ ds[1] # "0"
    \/ Len(ds) = 2 /\ DigitsValue(ds) \in 1..31

NoDate == [ok |-> FALSE, date |-> Date(0, 0, 0)]

\* The format's blanks match one or more whitespace characters, the whole
\* text must be consumed, and the day must exist in the month: anything
\* else is a ValueError (ok = FALSE).
Strptime(s) ==
    LET low  == Lower(s)
        ms   == {m \in 1..12 : /\ Len(s) >= Len(MonthNames[m])
                              /\ SubSeq(low, 1, Len(MonthNames[m])) = MonthNames[m]}
    IN IF ms = {} THEN NoDate
       ELSE LET m  == CHOOSE mm \in ms : TRUE
                i1 == Len(MonthNames[m]) + 1
                w1 == SpaceRun(s, i1)
                i2 == i1 + w1
                n2 == DigitRun(s, i2)
                i3 == i2 + n2
                w3 == SpaceRun(s, i3)
                i4 == i3 + w3
                n4 == DigitRun(s, i4)
                dd == SubSeq(s, i2, i3 - 1)
                yy == SubSeq(s, i4, i4 + n4 - 1)
            IN IF /\ w1 >= 1
                  /\ IsDayText(dd)
                  /\ w3 >= 1
                  /\ n4 = 4
                  /\ i4 + n4 - 1 = Len(s)
                  /\ DigitsValue(yy) >= 1
                  /\ DigitsValue(dd) <= DaysInMonth(DigitsValue(yy), m)
               THEN [ok |-> TRUE, date |-> Date(DigitsValue(yy), m, DigitsValue(dd))]
               ELSE NoDate

\* the year rolled forward: next year's number appended
WithNextYear(s, dt) == s \o <<" ">> \o Decimal(dt.year + 1, 1)

\* date_str + f" {today.year}"
WithYear(s, dt) == s \o <<" ">> \o Decimal(dt.year, 1)

(***************************************************************************)
(* convert_to_iso_date, src/app.py.                                        *)
(***************************************************************************)
s_tomorrow == <<"t", "o", "m", "o", "r", "r", "o", "w">>

s_in == <<"i", "n", " ">>

s_days == <<" ", "d", "a", "y", "s">>

s_next == <<"n", "e", "x", "t">>

\* the weekdays dictionary, in insertion order: position - 1 is the value
weekdays ==
    << <<"m", "o", "n", "d", "a", "y">>,
       <<"t", "u", "e", "s", "d", "a", "y">>,
       <<"w", "e", "d", "n", "e", "s", "d", "a", "y">>,
       <<"t", "h", "u", "r", "s", "d", "a", "y">>,
       <<"f", "r", "i", "d", "a", "y">>,
       <<"s", "a", "t", "u", "r", "d", "a", "y">>,
       <<"s", "u", "n", "d", "a", "y">> >>

\* date_str.split("in ")[1].split(" days")[0]
DaysText(s) == SplitItem0(SplitItem1(s, s_in), s_days)

\* lines 82-87
days_until_next(dt, target_weekday) ==
    LET d == (target_weekday - Weekday(dt) + 7) % 7
    IN IF d = 0 THEN d + 7 ELSE d

\* lines 89-92
AppAbsolute(s, dt) ==
    IF Strptime(WithYear(s, dt)).ok
    THEN Return(Str(Strftime(Strptime(WithYear(s, dt)).date)))
    ELSE Return(Str(s))

\* lines 75-87, falling through to lines 89-92 when no weekday is named
AppNextWeekday(s, dt) ==
    LET named == {i \in 1..Len(weekdays) : Contains(Lower(s), weekdays[i])}
    IN IF Contains(Lower(s), s_next) /\ named # {}
       THEN LET i == CHOOSE k \in named : \A j \in named : k <= j
            IN Return(Str(Strftime(AddDays(dt, days_until_next(dt, i - 1)))))
       ELSE AppAbsolute(s, dt)

\* lines 68-73: the bare except catches the ValueError of int() and the
\* OverflowError of the date addition alike
AppInDays(s, dt) ==
    IF Contains(s, s_in) /\ Contains(s, s_days)
    THEN IF IntParses(DaysText(s)) /\ ~AddDaysOverflows(dt, IntValue(DaysText(s)))
         THEN Return(Str(Strftime(AddDays(dt, IntValue(DaysText(s))))))
         ELSE Return(Str(s))
    ELSE AppNextWeekday(s, dt)

\* app.py with the weekday rule tried before the "in N days" rule
app_convert_weekday_first(date_str, dt) ==
    IF ~IsStr(date_str) THEN Raise("AttributeError")
    ELSE IF Lower(date_str.v) = s_tomorrow
         THEN Return(Str(Strftime(AddDays(dt, 1))))
         ELSE IF /\ Contains(Lower(date_str.v), s_next)
                 /\ \E i \in 1..Len(weekdays) : Contains(Lower(date_str.v), weekdays[i])
              THEN AppNextWeekday(date_str.v, dt)
              ELSE AppInDays(date_str.v, dt)

\* app.py comparing with "tomorrow" without lower-casing the phrase
app_convert_case_sensitive(date_str, dt) ==
    IF ~IsStr(date_str) THEN Raise("AttributeError")
    ELSE IF date_str.v = s_tomorrow
         THEN Return(Str(Strftime(AddDays(dt, 1))))
         ELSE AppInDays(date_str.v, dt)

\* lines 62-92; None and numbers have no lower()
app_convert_to_iso_date(date_str, dt) ==
    IF ~IsStr(date_str) THEN Raise("AttributeError")
    ELSE IF Lower(date_str.v) = s_tomorrow
         THEN Return(Str(Strftime(AddDays(dt, 1))))
         ELSE AppInDays(date_str.v, dt)

(***************************************************************************)
(* convert_to_iso_date, src/flight_search_agent.py.                        *)
(***************************************************************************)
\* lines 62-65
AgentAbsolute(s, dt) ==
    IF Strptime(WithYear(s, dt)).ok
    THEN Return(Str(Strftime(Strptime(WithYear(s, dt)).date)))
    ELSE Return(None)

\* lines 55-60: only ValueError is caught, an OverflowError propagates
AgentInDays(s, dt) ==
    IF Contains(s, s_in) /\ Contains(s, s_days)
    THEN IF ~IntParses(DaysText(s)) THEN Return(None)
         ELSE IF AddDaysOverflows(dt, IntValue(DaysText(s))) THEN Raise("OverflowError")
         ELSE Return(Str(Strftime(AddDays(dt, IntValue(DaysText(s))))))
    ELSE AgentAbsolute(s, dt)

\* lines 43-65
agent_convert_to_iso_date(date_str, dt) ==
    IF ~Truthy(date_str) \/ ~IsStr(date_str) THEN Return(None)
    ELSE IF Strip(date_str.v) = <<>> THEN Return(None)
    ELSE LET s == Strip(Lower(date_str.v))
         IN IF s = s_tomorrow
            THEN Return(Str(Strftime(AddDays(dt, 1))))
            ELSE AgentInDays(s, dt)

\* the normaliser of the script that is running
convert_to_iso_date(p, date_str, dt) ==
    IF p = "app" THEN app_convert_to_iso_date(date_str, dt)
    ELSE agent_convert_to_iso_date(date_str, dt)

(***************************************************************************)
(* Inputs: the date phrases handed to the normaliser.                      *)
(***************************************************************************)
S_tomorrow == <<"t", "o", "m", "o", "r", "r", "o", "w">>
S_Tomorrow == <<"T", "o", "m", "o", "r", "r", "o", "w">>
S_tomorrow_padded == <<" ", "t", "o", "m", "o", "r", "r", "o", "w", " ">>
S_tmrw == <<"t", "m", "r", "w">>
S_in_5_days == <<"i", "n", " ", "5", " ", "d", "a", "y", "s">>
S_in_0_days == <<"i", "n", " ", "0", " ", "d", "a", "y", "s">>
S_In_3_Days == <<"I", "n", " ", "3", " ", "D", "a", "y", "s">>
S_in_banana_days == <<"i", "n", " ", "b", "a", "n", "a", "n", "a", " ", "d", "a", "y", "s">>
S_berlin_in_3_days == <<"b", "e", "r", "l", "i", "n", " ", "i", "n", " ", "3", " ", "d", "a", "y", "s">>
S_in_3_days_next_friday == <<"i", "n", " ", "3", " ", "d", "a", "y", "s", " ", "n", "e", "x", "t", " ", "f", "r", "i", "d", "a", "y">>
S_in_x_days_next_friday == <<"i", "n", " ", "x", " ", "d", "a", "y", "s", " ", "n", "e", "x", "t", " ", "f", "r", "i", "d", "a", "y">>
S_in_minus_3_days == <<"i", "n", " ", "-", "3", " ", "d", "a", "y", "s">>
S_in_1_0_days == <<"i", "n", " ", "1", "_", "0", " ", "d", "a", "y", "s">>
S_in_4000000_days == <<"i", "n", " ", "4", "0", "0", "0", "0", "0", "0", " ", "d", "a", "y", "s">>
S_in_minus_739000_days == <<"i", "n", " ", "-", "7", "3", "9", "0", "0", "0", " ", "d", "a", "y", "s">>
S_next_monday == <<"n", "e", "x", "t", " ", "m", "o", "n", "d", "a", "y">>
S_next_tuesday == <<"n", "e", "x", "t", " ", "t", "u", "e", "s", "d", "a", "y">>
S_next_wednesday == <<"n", "e", "x", "t", " ", "w", "e", "d", "n", "e", "s", "d", "a", "y">>
S_next_thursday == <<"n", "e", "x", "t", " ", "t", "h", "u", "r", "s", "d", "a", "y">>
S_next_friday == <<"n", "e", "x", "t", " ", "f", "r", "i", "d", "a", "y">>
S_next_saturday == <<"n", "e", "x", "t", " ", "s", "a", "t", "u", "r", "d", "a", "y">>
S_next_sunday == <<"n", "e", "x", "t", " ", "s", "u", "n", "d", "a", "y">>
S_Next_Friday == <<"N", "e", "x", "t", " ", "F", "r", "i", "d", "a", "y">>
S_next_week == <<"n", "e", "x", "t", " ", "w", "e", "e", "k">>
S_next_sunday_monday == <<"n", "e", "x", "t", " ", "s", "u", "n", "d", "a", "y", ",", " ", "m", "o", "n", "d", "a", "y">>
S_may_5 == <<"m", "a", "y", " ", "5">>
S_May_5 == <<"M", "a", "y", " ", "5">>
S_5_May == <<"5", " ", "M", "a", "y">>
S_5th_May == <<"5", "t", "h", " ", "M", "a", "y">>
S_May_5th == <<"M", "a", "y", " ", "5", "t", "h">>
S_January_5 == <<"J", "a", "n", "u", "a", "r", "y", " ", "5">>
S_february_29 == <<"f", "e", "b", "r", "u", "a", "r", "y", " ", "2", "9">>
S_february_30 == <<"f", "e", "b", "r", "u", "a", "r", "y", " ", "3", "0">>
S_december_31 == <<"d", "e", "c", "e", "m", "b", "e", "r", " ", "3", "1">>
S_may_05_padded == <<"m", "a", "y", " ", " ", "0", "5", " ">>
S_empty == <<>>
S_blank == <<" ", " ">>
S_gibberish == <<"g", "i", "b", "b", "e", "r", "i", "s", "h">>
S_2025_06_10 == <<"2", "0", "2", "5", "-", "0", "6", "-", "1", "0">>

Phrases ==
    { S_tomorrow, S_Tomorrow, S_tomorrow_padded, S_tmrw,
      S_in_5_days, S_in_0_days, S_In_3_Days, S_in_banana_days, S_berlin_in_3_days,
      S_in_3_days_next_friday, S_in_x_days_next_friday, S_in_minus_3_days,
      S_in_1_0_days, S_in_4000000_days, S_in_minus_739000_days,
      S_next_monday, S_next_tuesday, S_next_wednesday, S_next_thursday,
      S_next_friday, S_next_saturday, S_next_sunday, S_Next_Friday,
      S_next_week, S_next_sunday_monday,
      S_may_5, S_May_5, S_5_May, S_5th_May, S_May_5th, S_January_5,
      S_february_29, S_february_30, S_december_31, S_may_05_padded,
      S_empty, S_blank, S_gibberish, S_2025_06_10 }

\* what a caller can pass: text, null, a number
DateArguments ==
    {Str(s) : s \in Phrases} \cup {None, IntVal(<<"5">>), IntVal(<<"0">>)}

\* the dates the system clock starts at: the reference Monday of the
\* examples, and days before a leap day, a month end, a year end and 5 May
ReferenceDate == Date(2025, 3, 10)

StartDates ==
    { ReferenceDate, Date(2024, 2, 28), Date(2025, 2, 27),
      Date(2025, 12, 30), Date(2025, 5, 3) }

(***************************************************************************)
(* Events: what one operation did, in order.                               *)
(***************************************************************************)
Event(op, arg, out, api, dt) ==
    [op |-> op, arg |-> arg, out |-> out, api |-> api, today |-> dt]

\* a call of convert_to_iso_date whose outcome is out
Converted(date_str, out, dt) == Event("convert_to_iso_date", date_str, out, "", dt)

ConvertEvent(p, date_str, dt) == Converted(date_str, convert_to_iso_date(p, date_str, dt), dt)

\* an exception nothing catches ends the script run
Crash(e, dt) == Event("raise", None, Raise(e), "", dt)

\* st.warning, st.error, st.dataframe, st.stop
Shown(op, arg, dt) == Event(op, arg, Return(None), "", dt)

(***************************************************************************)
(* get_iata_code and the module-level iata_cache.                          *)
(***************************************************************************)
c_London == <<"L", "o", "n", "d", "o", "n">>

c_Oslo == <<"O", "s", "l", "o">>

\* src/app.py lines 27-38
AppInitialCache ==
    (Str(<<"L", "o", "n", "d", "o", "n">>) :> Str(<<"L", "O", "N">>))
    @@ (Str(<<"D", "e", "l", "h", "i">>) :> Str(<<"D", "E", "L">>))
    @@ (Str(<<"N", "e", "w", " ", "Y", "o", "r", "k">>) :> Str(<<"N", "Y", "C">>))
    @@ (Str(<<"L", "o", "s", " ", "A", "n", "g", "e", "l", "e", "s">>) :> Str(<<"L", "A", "X">>))
    @@ (Str(<<"P", "a", "r", "i", "s">>) :> Str(<<"P", "A", "R">>))
    @@ (Str(<<"T", "o", "k", "y", "o">>) :> Str(<<"T", "Y", "O">>))
    @@ (Str(<<"D", "u", "b", "a", "i">>) :> Str(<<"D", "X", "B">>))
    @@ (Str(<<"M", "u", "m", "b", "a", "i">>) :> Str(<<"B", "O", "M">>))
    @@ (Str(<<"S", "i", "n", "g", "a", "p", "o", "r", "e">>) :> Str(<<"S", "I", "N">>))
    @@ (Str(<<"B", "e", "r", "l", "i", "n">>) :> Str(<<"B", "E", "R">>))

\* src/flight_search_agent.py line 27
AgentInitialCache == <<>>

\* what amadeus.reference_data.locations.get answers: data whose first
\* entry carries an iataCode, no data, or a ResponseError
Data(code) == [kind |-> "data", code |-> Str(code)]

LookupResponses ==
    {Data(<<"O", "S", "L">>), Data(<<"T", "R", "F">>),
     [kind |-> "empty", code |-> None], [kind |-> "error", code |-> None]}

\* src/app.py lines 41-59: val is the value returned, cache the dictionary
\* afterwards, api what the location service was asked ("none": not asked)
app_get_iata_code(cache, city_name, response) ==
    IF city_name \in DOMAIN cache
    THEN [val |-> cache[city_name], cache |-> cache, api |-> "none"]
    ELSE IF response.kind = "data"
         THEN [val |-> response.code,
               cache |-> (city_name :> response.code) @@ cache,
               api |-> "data"]
         ELSE [val |-> None, cache |-> cache, api |-> response.kind]

\* get_iata_code without the cache test: the service is asked every time
\* and its answer replaces the entry
agent_get_iata_code_uncached(cache, city_name, response) ==
    IF response.kind = "data"
    THEN [val |-> response.code,
          cache |-> (city_name :> response.code) @@ cache,
          api |-> "data"]
    ELSE [val |-> None, cache |-> cache, api |-> response.kind]

\* src/flight_search_agent.py lines 29-40
agent_get_iata_code(cache, city_name, response) ==
    IF city_name \in DOMAIN cache
    THEN [val |-> cache[city_name], cache |-> cache, api |-> "none"]
    ELSE IF response.kind = "data"
         THEN [val |-> response.code,
               cache |-> (city_name :> response.code) @@ cache,
               api |-> "data"]
         ELSE [val |-> None, cache |-> cache, api |-> response.kind]

get_iata_code(p, cache, city_name, response) ==
    IF p = "app" THEN app_get_iata_code(cache, city_name, response)
    ELSE agent_get_iata_code(cache, city_name, response)

LookupEvent(city_name, r, dt) == Event("get_iata_code", city_name, Return(r.val), r.api, dt)

CityArguments == {Str(c_London), Str(c_Oslo), None}

(***************************************************************************)
(* The state after the script is loaded, and the function-level steps.     *)
(***************************************************************************)
Programs == {"app", "agent"}

InitialCache(p) == IF p = "app" THEN AppInitialCache ELSE AgentInitialCache

Init ==
    /\ prog \in Programs
    /\ today = ReferenceDate
    /\ ticks = 0
    /\ iata_cache = InitialCache(prog)
    /\ log = <<>>

InitNormalizer ==
    /\ prog \in Programs
    /\ today \in StartDates
    /\ ticks = 0
    /\ iata_cache = InitialCache(prog)
    /\ log = <<>>

\* midnight passes: datetime.date.today() returns the next day from now on
Tick ==
    /\ ticks < MaxTicks
    /\ today' = AddDays(today, 1)
    /\ ticks' = ticks + 1
    /\ log' = <<>>
    /\ UNCHANGED <<prog, iata_cache>>

\* one call convert_to_iso_date(date_str)
ConvertCall ==
    \E date_str \in DateArguments :
        /\ log' = <<ConvertEvent(prog, date_str, today)>>
        /\ UNCHANGED <<prog, today, ticks, iata_cache>>

\* one call get_iata_code(city_name)
GetIataCall ==
    \E city_name \in CityArguments, response \in LookupResponses :
        LET r == get_iata_code(prog, iata_cache, city_name, response)
        IN /\ iata_cache' = r.cache
           /\ log' = <<LookupEvent(city_name, r, today)>>
           /\ UNCHANGED <<prog, today, ticks>>

(***************************************************************************)
(* Request handling: the block run for one user input.                     *)
(***************************************************************************)
\* a key that the extracted JSON object does not have
Absent == [t |-> "absent", v |-> <<>>]

EmptyList == [t |-> "list", v |-> <<>>]

\* flight_details.get(key, default)
Get(x, default) == IF x = Absent THEN default ELSE x

Request(o, d, dep, ret, a, c) ==
    [valid |-> TRUE, origin |-> o, destination |-> d, departure_date |-> dep,
     return_date |-> ret, adults |-> a, children |-> c]

\* a reply of the language model that json.loads rejects
InvalidJSON == [Request(None, None, None, None, None, None) EXCEPT !.valid = FALSE]

One == IntVal(<<"1">>)

Requests ==
    { Request(Str(c_London), Str(c_Oslo), Str(S_may_5), None, One, EmptyList),
      Request(Str(c_London), Str(c_Oslo), Str(S_gibberish), None, One, EmptyList),
      Request(Str(c_London), Str(c_Oslo), Str(S_may_5), Str(S_gibberish), One, EmptyList),
      Request(Str(c_London), Str(c_Oslo), Str(S_in_4000000_days), Str(S_may_5), One, EmptyList),
      Request(Str(c_London), Str(c_Oslo), None, None, One, EmptyList),
      Request(Str(c_Oslo), Str(c_Oslo), Absent, Str(S_tomorrow), One, Absent),
      Request(None, Str(c_Oslo), Str(S_tomorrow), None, One, EmptyList),
      Request(Str(c_London), Str(c_Oslo), Str(S_may_5), None, None, None),
      Request(Str(c_London), Str(c_London), Str(S_gibberish), Str(S_gibberish), One, EmptyList),
      Request(Str(c_Oslo), Str(c_London), Str(S_next_friday), Str(S_blank), One, EmptyList),
      InvalidJSON }

\* what amadeus.shopping.flight_offers_search.get answers
SearchResponses == {"flights", "empty", "error"}

\* src/flight_search_agent.py lines 68-81: the questions, in this order
request_missing_info(missing_fields) ==
    [t |-> "questions",
     v |-> SelectSeq(<<"origin", "destination", "departure_date", "adults", "children">>,
                     LAMBDA f : \E i \in 1..Len(missing_fields) : missing_fields[i] = f)]

\* src/flight_search_agent.py lines 126-130
MissingFields(origin_city, destination_city, departure_date, adults, children) ==
    (IF ~Truthy(origin_city) THEN <<"origin">> ELSE <<>>)
    \o (IF ~Truthy(destination_city) THEN <<"destination">> ELSE <<>>)
    \o (IF ~Truthy(departure_date) THEN <<"departure_date">> ELSE <<>>)
    \o (IF adults = None THEN <<"adults">> ELSE <<>>)
    \o (IF children = None THEN <<"children">> ELSE <<>>)

\* lines 157-192
AgentSearch(departure_date, sr, dt) ==
    <<Event("flight_offers_search", departure_date, Return(None), sr, dt)>>
    \o (CASE sr = "flights" -> <<Shown("dataframe", None, dt)>>
          [] sr = "empty" -> <<Shown("warning", None, dt), Shown("stop", None, dt)>>
          [] OTHER -> <<Shown("error", None, dt)>>)

\* lines 137-192
AgentLookupAndSearch(fd, departure_date, r1, r2, sr, cache, dt) ==
    LET l1 == agent_get_iata_code(cache, fd.origin, r1)
        l2 == agent_get_iata_code(l1.cache, fd.destination, r2)
        ev == <<LookupEvent(fd.origin, l1, dt), LookupEvent(fd.destination, l2, dt)>>
    IN IF ~Truthy(l1.val) \/ ~Truthy(l2.val)
       THEN [log |-> ev \o <<Shown("error", None, dt), Shown("stop", None, dt)>>,
             cache |-> l2.cache]
       ELSE [log |-> ev \o AgentSearch(departure_date, sr, dt), cache |-> l2.cache]

\* lines 113-119: the two dates, and the calls of the normaliser made for them
AgentDates(fd, dt) ==
    LET extracted_date == Get(fd.departure_date, None)
        dep == IF Truthy(extracted_date)
               THEN agent_convert_to_iso_date(extracted_date, dt) ELSE Return(None)
        rd == Get(fd.return_date, None)
        ret == IF Truthy(rd)
               THEN agent_convert_to_iso_date(rd, dt) ELSE Return(Str(<<"One-way">>))
    IN [dep |-> dep,
        depEv |-> IF Truthy(extracted_date)
                  THEN <<Converted(extracted_date, dep, dt)>> ELSE <<>>,
        ret |-> ret,
        retEv |-> IF Truthy(rd) THEN <<Converted(rd, ret, dt)>> ELSE <<>>]

\* lines 102-195: the events of one run and the cache it leaves; d is
\* AgentDates(fd, dt)
AgentRun(fd, d, r1, r2, sr, cache, dt) ==
    IF ~fd.valid THEN [log |-> <<Shown("error", None, dt)>>, cache |-> cache]
    ELSE
    LET missing == MissingFields(Get(fd.origin, None), Get(fd.destination, None), d.dep.val,
                                 Get(fd.adults, None), Get(fd.children, EmptyList))
    IN IF d.dep.raised # ""
       THEN [log |-> d.depEv \o <<Crash(d.dep.raised, dt)>>, cache |-> cache]
       ELSE IF d.ret.raised # ""
       THEN [log |-> d.depEv \o d.retEv \o <<Crash(d.ret.raised, dt)>>, cache |-> cache]
       ELSE IF missing # <<>>
       THEN [log |-> d.depEv \o d.retEv
                     \o <<Shown("warning", request_missing_info(missing), dt),
                          Shown("stop", None, dt)>>,
             cache |-> cache]
       ELSE LET r == AgentLookupAndSearch(fd, d.dep.val, r1, r2, sr, cache, dt)
            IN [log |-> d.depEv \o d.retEv \o r.log, cache |-> r.cache]

\* src/app.py lines 139-197
AppSearch(departure_date, sr, dt) ==
    <<Event("flight_offers_search", departure_date, Return(None), sr, dt)>>
    \o (CASE sr = "flights" -> <<Shown("dataframe", None, dt)>>
          [] OTHER -> <<Shown("error", None, dt)>>)

\* src/app.py lines 132-133: the two dates, and the calls made for them
AppDates(fd, dt) ==
    LET dd == Get(fd.departure_date, Str(S_2025_06_10))
        dep == app_convert_to_iso_date(dd, dt)
        rd == Get(fd.return_date, None)
        ret == IF Truthy(rd) THEN app_convert_to_iso_date(rd, dt) ELSE Return(None)
    IN [dep |-> dep,
        depEv |-> <<Converted(dd, dep, dt)>>,
        ret |-> ret,
        retEv |-> IF Truthy(rd) THEN <<Converted(rd, ret, dt)>> ELSE <<>>]

\* src/app.py lines 132-197; the return date is converted only once the
\* departure date has been
AppConvertAndSearch(fd, d, sr, dt) ==
    LET adults == Get(fd.adults, One)
        children == Get(fd.children, EmptyList)
    IN IF d.dep.raised # "" THEN d.depEv \o <<Crash(d.dep.raised, dt)>>
       ELSE IF d.ret.raised # "" THEN d.depEv \o d.retEv \o <<Crash(d.ret.raised, dt)>>
       ELSE IF adults.t # "int" \/ children.t # "list"
       THEN d.depEv \o d.retEv \o <<Crash("TypeError", dt)>>
       ELSE d.depEv \o d.retEv \o AppSearch(d.dep.val, sr, dt)

\* src/app.py lines 116-200; d is AppDates(fd, dt)
AppRun(fd, d, r1, r2, sr, cache, dt) ==
    IF ~fd.valid THEN [log |-> <<Shown("error", None, dt)>>, cache |-> cache]
    ELSE
    LET origin_city == Get(fd.origin, Str(<<>>))
        destination_city == Get(fd.destination, Str(<<>>))
        l1 == app_get_iata_code(cache, origin_city, r1)
        l2 == app_get_iata_code(l1.cache, destination_city, r2)
        ev == <<LookupEvent(origin_city, l1, dt), LookupEvent(destination_city, l2, dt)>>
    IN IF ~Truthy(l1.val) \/ ~Truthy(l2.val)
       THEN [log |-> ev \o <<Shown("error", None, dt), Shown("stop", None, dt)>>,
             cache |-> l2.cache]
       ELSE [log |-> ev \o AppConvertAndSearch(fd, d, sr, dt), cache |-> l2.cache]

\* the dates the clock shows in a run that starts at the reference date
ClockDates == {AddDays(ReferenceDate, k) : k \in 0..MaxTicks}

\* AppDates and AgentDates of every request on every such date, computed once
AppDatesOf == [fd \in Requests, dt \in ClockDates |-> AppDates(fd, dt)]

AgentDatesOf == [fd \in Requests, dt \in ClockDates |-> AgentDates(fd, dt)]

AppRequest ==
    /\ prog = "app"
    /\ \E fd \in Requests :
          LET d == AppDatesOf[fd, today]
          IN \E r1 \in LookupResponses, r2 \in LookupResponses, sr \in SearchResponses :
                LET r == AppRun(fd, d, r1, r2, sr, iata_cache, today)
                IN /\ log' = r.log
                   /\ iata_cache' = r.cache
    /\ UNCHANGED <<prog, today, ticks>>

AgentRequest ==
    /\ prog = "agent"
    /\ \E fd \in Requests :
          LET d == AgentDatesOf[fd, today]
          IN \E r1 \in LookupResponses, r2 \in LookupResponses, sr \in SearchResponses :
                LET r == AgentRun(fd, d, r1, r2, sr, iata_cache, today)
                IN /\ log' = r.log
                   /\ iata_cache' = r.cache
    /\ UNCHANGED <<prog, today, ticks>>

Next == Tick \/ AppRequest \/ AgentRequest

Spec == Init /\ [][Next]_vars

NextNormalizer == Tick \/ ConvertCall

SpecNormalizer == InitNormalizer /\ [][NextNormalizer]_vars

NextLookup == GetIataCall

SpecLookup == Init /\ [][NextLookup]_vars

(***************************************************************************)
(* Vocabulary of the properties.                                           *)
(***************************************************************************)
\* the calls of the normaliser that the last operation made
ConvertCalls == {i \in 1..Len(log) : log[i].op = "convert_to_iso_date"}

\* the Unparseable signal: None, as an ordinary return value
Unparseable(out) == out.raised = "" /\ out.val = None

\* the call returned the ISO text of date dt
ReturnsDate(out, dt) == out = Return(Str(Strftime(dt)))

\* a well-formed YYYY-MM-DD calendar date
IsISODate(x) ==
    /\ x.t = "str"
    /\ Len(x.v) = 10
    /\ x.v[5] = "-" /\ x.v[8] = "-"
    /\ \A i \in {1, 2, 3, 4, 6, 7, 9, 10} : IsDigit(x.v[i])
    /\ DigitsValue(SubSeq(x.v, 1, 4)) >= 1
    /\ DigitsValue(SubSeq(x.v, 6, 7)) \in 1..12
    /\ DigitsValue(SubSeq(x.v, 9, 10)) >= 1
    /\ DigitsValue(SubSeq(x.v, 9, 10))
           <= DaysInMonth(DigitsValue(SubSeq(x.v, 1, 4)), DigitsValue(SubSeq(x.v, 6, 7)))

\* results named by the witnesses
S_2026_01_01 == <<"2", "0", "2", "6", "-", "0", "1", "-", "0", "1">>
S_2025_01_05 == <<"2", "0", "2", "5", "-", "0", "1", "-", "0", "5">>

\* the text the rules are matched against: flight_search_agent.py lower-cases
\* and trims the phrase first, app.py does not
Working(p, s) == IF p = "app" THEN s ELSE Strip(Lower(s))

\* C1 (as claimed): no call of the normaliser raises, and null, a
\* non-string, the empty or blank string and garbled text all return
\* Unparseable.
C1_NeverRaises ==
    \A i \in ConvertCalls :
        /\ log[i].out.raised = ""
        /\ (~IsStr(log[i].arg) \/ Strip(log[i].arg.v) = <<>> \/ log[i].arg.v = S_gibberish)
               => Unparseable(log[i].out)

\* C2 (as claimed): every value the normaliser returns is a well-formed
\* YYYY-MM-DD date or the Unparseable signal.
C2_TwoOutcomes ==
    \A i \in ConvertCalls :
        log[i].out.raised = "" => (log[i].out.val = None \/ IsISODate(log[i].out.val))

\* C3 (as claimed): a phrase containing "next" and the weekday name w (and
\* no other weekday name, and not taken by the "in N days" rule) normalises
\* to today + k days, k = (weekday(w) - weekday(today)) mod 7, with 7 in
\* place of 0.
C3_NextWeekday ==
    \A i \in ConvertCalls : \A w \in 1..Len(weekdays) :
        LET e == log[i]
            k == ((w - 1) - Weekday(e.today) + 7) % 7
        IN (/\ IsStr(e.arg)
            /\ Contains(Lower(e.arg.v), s_next)
            /\ \A v \in 1..Len(weekdays) : Contains(Lower(e.arg.v), weekdays[v]) <=> v = w
            /\ ~(Contains(Lower(e.arg.v), s_in) /\ Contains(Lower(e.arg.v), s_days)))
           => ReturnsDate(e.out, AddDays(e.today, IF k = 0 THEN 7 ELSE k))

\* the texts N for which "in N days" occurs in s
InDaysNumbers(s) ==
    {SubSeq(s, p[1] + Len(s_in), p[2] - 1) :
        p \in {q \in (1..(Len(s) - Len(s_in) + 1)) \X (1..(Len(s) - Len(s_days) + 1)) :
                  /\ SubSeq(s, q[1], q[1] + Len(s_in) - 1) = s_in
                  /\ SubSeq(s, q[2], q[2] + Len(s_days) - 1) = s_days
                  /\ q[2] >= q[1] + Len(s_in)}}

IsNumber(n) == n # <<>> /\ \A i \in 1..Len(n) : IsDigit(n[i])

\* C4 (as claimed): when "in <N> days" occurs anywhere in the phrase,
\* ignoring case, with N a non-negative integer, the result is today + N
\* days; when "in " and " days" occur but nothing between them is a number
\* the result is Unparseable.
C4_InNDays ==
    \A i \in ConvertCalls :
        LET e == log[i]
            ns == IF IsStr(e.arg) THEN InDaysNumbers(Lower(e.arg.v)) ELSE {}
        IN /\ \A n \in ns : IsNumber(n) => ReturnsDate(e.out, AddDays(e.today, DigitsValue(n)))
           /\ (ns # {} /\ \A n \in ns : ~IntParses(n)) => Unparseable(e.out)

\* C5: a phrase that satisfies the match condition of the "in N days" rule
\* and of the "next <weekday>" rule gets the result of the earlier rule, in
\* both scripts: today + N days when N parses, and the failure result (never
\* the weekday's date) when it does not.
C5_FirstMatchWins ==
    \A i \in ConvertCalls :
        LET e == log[i]
            s == Working(prog, e.arg.v)
        IN (/\ IsStr(e.arg)
            /\ Contains(s, s_in) /\ Contains(s, s_days)
            /\ Contains(Lower(s), s_next)
            /\ \E w \in 1..Len(weekdays) : Contains(Lower(s), weekdays[w]))
           => IF IntParses(DaysText(s)) /\ ~AddDaysOverflows(e.today, IntValue(DaysText(s)))
              THEN ReturnsDate(e.out, AddDays(e.today, IntValue(DaysText(s))))
              ELSE e.out \in {Return(None), Return(e.arg), Raise("OverflowError")}

\* C5 witness: app.py was given "in 3 days next friday" on a day whose
\* next Friday is not three days away, and returned today + 3 days.
C5_Witness ==
    /\ prog = "app"
    /\ \E i \in ConvertCalls :
          /\ log[i].arg = Str(S_in_3_days_next_friday)
          /\ ReturnsDate(log[i].out, AddDays(log[i].today, 3))
          /\ days_until_next(log[i].today, 4) # 3

MonthDay(m, d) == MonthNames[m] \o <<" ">> \o Decimal(d, 1)

DayMonth(m, d, suffix) == Decimal(d, 1) \o suffix \o <<" ">> \o MonthNames[m]

MonthDayOrdinal(m, d, suffix) == MonthNames[m] \o <<" ">> \o Decimal(d, 1) \o suffix

OrdinalSuffixes == {<<"s", "t">>, <<"n", "d">>, <<"r", "d">>, <<"t", "h">>}

\* the ISO text of day d of month m of year y, written out digit by digit
ISOText(y, m, d) ==
    Decimal(y, 4) \o <<"-">> \o Decimal(m, 2) \o <<"-">> \o Decimal(d, 2)

C8_ClarifyAndStop ==
    \A i \in ConvertCalls :
        Unparseable(log[i].out)
            => /\ \E j \in (i + 1)..Len(log) : log[j].op = "warning"
               /\ \E j \in (i + 1)..Len(log) : log[j].op = "stop"
               /\ \A j \in (i + 1)..Len(log) :
                      log[j].op \notin {"get_iata_code", "flight_offers_search"}

\* the lookups of the step's operation that found city c in the cache
\* as it was before the step, or as an earlier lookup of the operation left it
CachedBefore(i) ==
    \/ log'[i].arg \in DOMAIN iata_cache
    \/ \E j \in 1..(i - 1) :
          log'[j].op = "get_iata_code" /\ log'[j].arg = log'[i].arg /\ log'[j].api = "data"

\* C10: a call for a cached city returns the cached code without asking the
\* location service; entries are never overwritten or removed; a non-null
\* code that is returned is in the cache afterwards; a lookup that fails or
\* finds no data returns None and stores nothing; and a call for a city that
\* is not cached asks the service.
C10_Step ==
    /\ \A c \in DOMAIN iata_cache : c \in DOMAIN iata_cache' /\ iata_cache'[c] = iata_cache[c]
    /\ \A c \in DOMAIN iata_cache' \ DOMAIN iata_cache :
          \E i \in 1..Len(log') :
              /\ log'[i].op = "get_iata_code" /\ log'[i].arg = c
              /\ log'[i].api = "data" /\ log'[i].out = Return(iata_cache'[c])
    /\ \A i \in 1..Len(log') :
          LET e == log'[i]
          IN e.op = "get_iata_code" =>
               /\ CachedBefore(i) => (e.api = "none" /\ e.out = Return(iata_cache'[e.arg]))
               /\ ~CachedBefore(i) => e.api \in {"data", "empty", "error"}
               /\ e.out.val # None
                     => (e.arg \in DOMAIN iata_cache' /\ iata_cache'[e.arg] = e.out.val)
               /\ e.api \in {"empty", "error"} => e.out = Return(None)

C10_CacheStable == [][C10_Step]_vars

\* C10 witness: flight_search_agent.py, whose cache starts empty, answered a
\* call for Oslo from the cache.
C10_Witness ==
    /\ prog = "agent"
    /\ Len(log) = 1
    /\ log[1].op = "get_iata_code"
    /\ log[1].arg = Str(c_Oslo)
    /\ log[1].api = "none"
    /\ log[1].out.val # None

====
